---- MODULE Spec2Model ----
(***************************************************************************)
(* A model of video_mcp_server/server.py: the tool dispatcher call_tool,   *)
(* the FFmpeg wrapper VideoProcessor, the YouTube wrapper                  *)
(* YouTubeDownloader, the Groq wrapper AIAnalyzer and the process-wide     *)
(* ai_analyzer singleton.                                                  *)
(*                                                                         *)
(* External programs (ffprobe, ffmpeg, yt-dlp, the Groq API, the file      *)
(* system calls that may fail) are an environment: each invocation draws   *)
(* their outcomes from the record w ("world").  Every Python function is   *)
(* an operator that returns what the function returns (ret), the ordered   *)
(* list of operations it performed (ev) and, when it raises, the message   *)
(* of the exception (exc # "").                                            *)
(*                                                                         *)
(* Floats: a duration is a whole number of ticks and the timestamps        *)
(* computed from it are exact rationals <<numerator, denominator>>.        *)
(***************************************************************************)
EXTENDS Integers, Sequences, FiniteSets, TLC

VARIABLES
    ai_analyzer,  \* the global ai_analyzer: 0 is None, k > 0 the k-th AIAnalyzer built
    environ,      \* os.environ restricted to GROQ_API_KEY: <<>> when unset
    fs,           \* the files on disk that the code reads back: videos and segments
    pc,           \* "start" before the process serves, "idle" between requests,
                  \* "done" when call_tool has returned and the response is not yet sent,
                  \* "listed" when list_tools has returned
    last,         \* the request call_tool has just handled: inputs, response, operations
    hist,         \* history of the process: how the first evaluation of the credential
                  \* came out, and whether a request has failed
    loop          \* the event loop when invocations are dispatched concurrently: the
                  \* coroutine that is running, the position of each call_tool
                  \* coroutine, the clients built

vars == <<ai_analyzer, environ, fs, pc, last, hist, loop>>

-----------------------------------------------------------------------------
(* Bounds of the model *)

\* durations reported by the probe range over -1..MaxDuration ticks
MaxDuration == 3
\* the segmenting command writes at most MaxSegments files
MaxSegments == 2
\* at most NumTasks invocations are in progress at the same time
NumTasks == 2

-----------------------------------------------------------------------------
(* Python values of an argument bag *)

Absent == [t |-> "absent", i |-> 0, s |-> ""]
PyStr(x) == [t |-> "str", i |-> 0, s |-> x]
PyInt(n) == [t |-> "int", i |-> n, s |-> ""]
\* a non-empty list: a wrongly typed value for any parameter
PyList == [t |-> "list", i |-> 1, s |-> ""]

\* bool(v)
Truthy(v) ==
    CASE v.t = "str" -> v.s # ""
      [] v.t = "int" -> v.i # 0
      [] v.t = "list" -> v.i > 0
      [] OTHER -> FALSE

\* arguments.get(key, default); arguments.get(key) is Get(arguments, key, Absent)
Get(arguments, key, default) ==
    IF arguments[key].t = "absent" THEN default ELSE arguments[key]

\* one performed operation
Ev(op, a) == [op |-> op, a |-> a]

\* what a function call yields: a value, or an exception raised here (recorded as
\* an operation) or passed on from a callee
Return(r, e) == [ret |-> r, ev |-> e, exc |-> ""]
Raise(msg, e) == [ret |-> Absent, ev |-> e \o <<Ev("raise", msg)>>, exc |-> msg]
Propagate(msg, e) == [ret |-> Absent, ev |-> e, exc |-> msg]

\* except Exception as e inside a function: the exception is raised and caught there
Caught(msg, e) == e \o <<Ev("raise", msg)>>

-----------------------------------------------------------------------------
(* Paths *)

ExistingVideo == "/v/a.mp4"
MissingVideo == "/v/missing.mp4"

\* os.path.dirname over the paths of the model
Dirname(p) == IF p \in {ExistingVideo, MissingVideo} THEN "/v" ELSE ""

\* Path(p).stem
Stem(p) ==
    CASE p = ExistingVideo -> "a"
      [] p = MissingVideo -> "missing"
      [] OTHER -> ""

\* Path(p).name
Basename(p) ==
    CASE p = ExistingVideo -> "a.mp4"
      [] p = MissingVideo -> "missing.mp4"
      [] OTHER -> ""

\* os.path.dirname(video_path) or "."
DirOrDot(p) == IF Dirname(p) # "" THEN Dirname(p) ELSE "."

\* f"{i:03d}"
Pad3(i) ==
    IF i < 0 THEN "-" \o (IF -i < 10 THEN "0" ELSE "") \o ToString(-i)
    ELSE IF i < 10 THEN "00" \o ToString(i)
    ELSE IF i < 100 THEN "0" \o ToString(i)
    ELSE ToString(i)

\* os.path.join(dir, name)
Join(dir, name) == dir \o "/" \o name

\* a file on disk: a video, or a segment written by the segmenting command
VideoFile(p) == [dir |-> Dirname(p), base |-> Stem(p), kind |-> "video", idx |-> 0]
SegmentFile(dir, base, k) == [dir |-> dir, base |-> base, kind |-> "segment", idx |-> k]

\* the path of a file of fs as text
PathStr(f) ==
    IF f.kind = "segment"
    THEN Join(f.dir, f.base \o "_segment_" \o Pad3(f.idx) \o ".mp4")
    ELSE Join(f.dir, f.base \o ".mp4")

\* a variant that looks for the directory of the path only
Exists_DirectoryOnly(files, p) == \E f \in files : f.kind = "video" /\ f.dir = Dirname(p)

\* os.path.exists(path) for a str path
Exists(files, p) == \E f \in files : f.kind = "video" /\ PathStr(f) = p

-----------------------------------------------------------------------------
(* VideoProcessor.get_video_info *)

\* the stdout of a probe: a number, or text that is none
Num(n) == [num |-> TRUE, val |-> n]
Txt == [num |-> FALSE, val |-> 0]

InfoError(msg, video_path) ==
    [keys |-> {"error", "path"}, error |-> msg, duration |-> 0, width |-> 0,
     height |-> 0, codec |-> "", path |-> video_path, filename |-> ""]

InfoOk(duration, width, height, codec, video_path) ==
    [keys |-> {"duration", "width", "height", "codec", "path", "filename"},
     error |-> "", duration |-> duration, width |-> width, height |-> height,
     codec |-> codec, path |-> video_path, filename |-> Basename(video_path)]

\* the size probe's stdout split on "x" parses as two integers
SizeParses(fields) == Len(fields) = 2 /\ \A k \in 1..2 : fields[k].num

get_video_info(video_path, probe) ==
    LET e0 == <<Ev("get_video_info", video_path)>>
        e1 == e0 \o <<Ev("ffprobe", "duration")>>
        e2 == e1 \o <<Ev("ffprobe", "size")>>
        e3 == e2 \o <<Ev("ffprobe", "codec")>>
        duration == IF probe.dur.rc = 0 THEN probe.dur.out.val ELSE 0
        hasX == Len(probe.size.fields) >= 2
        sized == probe.size.rc = 0 /\ hasX
        width == IF sized THEN probe.size.fields[1].val ELSE 0
        height == IF sized THEN probe.size.fields[2].val ELSE 0
        codec == IF probe.codec.rc = 0 THEN probe.codec.out ELSE "unknown"
        Failed(msg, e) == Return(InfoError(msg, video_path), Caught(msg, e))
    IN  IF ~probe.launch
        THEN Failed("[Errno 2] No such file or directory: 'ffprobe'", e1)
        ELSE IF probe.dur.rc = 0 /\ ~probe.dur.out.num
        THEN Failed("could not convert string to float", e1)
        ELSE IF sized /\ ~SizeParses(probe.size.fields)
        THEN Failed("invalid literal for int() with base 10", e2)
        ELSE Return(InfoOk(duration, width, height, codec, video_path), e3)

\* a variant that lets a zero duration through
NoDuration_NegativeOnly(info) == "error" \in info.keys \/ info.duration < 0

\* if "error" in info: return []; if duration <= 0: return []
NoDuration(info) == "error" \in info.keys \/ info.duration <= 0

-----------------------------------------------------------------------------
(* VideoProcessor.extract_frames *)

\* range(1, n + 1)
Range1(n) == IF n >= 1 THEN 1..n ELSE {}

\* the frames of 1..n whose capture exited 0 with the file written, in order
RECURSIVE Captured(_, _, _, _, _)
Captured(dir, stem, n, i, failing) ==
    IF i > n THEN <<>>
    ELSE (IF i \in failing THEN <<>>
          ELSE <<Join(dir, stem \o "_frame_" \o Pad3(i) \o ".jpg")>>)
         \o Captured(dir, stem, n, i + 1, failing)

\* a variant without the margin of one interval at the end
Interval_NoMargin(duration, num_frames) == <<duration, num_frames>>

\* interval = duration / (num_frames + 1), for num_frames + 1 # 0
Interval(duration, num_frames) == <<duration, num_frames + 1>>

\* timestamp = i * interval
Timestamp(i, interval) == <<i * interval[1], interval[2]>>

\* the capture commands of the loop, in order
CaptureEvents(duration, num_frames) ==
    [i \in Range1(num_frames) |->
        Ev("capture", [i |-> i, ts |-> Timestamp(i, Interval(duration, num_frames))])]

extract_frames(video_path, num_frames, output_dir, w) ==
    LET dir == IF output_dir.t = "absent" THEN DirOrDot(video_path) ELSE output_dir.s
        e0 == <<Ev("extract_frames", [video_path |-> video_path, num_frames |-> num_frames]),
                Ev("makedirs", dir)>>
        Rest(info) ==
            IF ~w.mkdirOk THEN Raise("[Errno 13] Permission denied", e0)
            ELSE IF NoDuration(info.ret) THEN Return(<<>>, e0 \o info.ev)
            ELSE IF num_frames + 1 = 0 THEN Raise("float division by zero", e0 \o info.ev)
            ELSE IF Range1(num_frames) = {} THEN Return(<<>>, e0 \o info.ev)
            ELSE IF ~w.ffmpegLaunch
            THEN Raise("[Errno 2] No such file or directory: 'ffmpeg'",
                       e0 \o info.ev
                       \o SubSeq(CaptureEvents(info.ret.duration, num_frames), 1, 1))
            ELSE Return(Captured(dir, Stem(video_path), num_frames, 1, w.frameFail),
                        e0 \o info.ev \o CaptureEvents(info.ret.duration, num_frames))
    IN  Rest(get_video_info(video_path, w.probe))

-----------------------------------------------------------------------------
(* VideoProcessor.extract_audio *)

AudioPath(video_path, output_path) ==
    IF output_path.t = "absent"
    THEN Join(DirOrDot(video_path), Stem(video_path) \o "_audio.mp3")
    ELSE output_path.s

\* w.audio: "ok" the command exits 0 and the file is there, "fail" it does not,
\* "nolaunch" subprocess.run raises
extract_audio(video_path, output_path, w) ==
    LET e0 == <<Ev("extract_audio", video_path),
                Ev("ffmpeg_audio", AudioPath(video_path, output_path))>>
    IN  IF w.audio = "nolaunch"
        THEN Raise("[Errno 2] No such file or directory: 'ffmpeg'", e0)
        ELSE IF w.audio = "ok" THEN Return(AudioPath(video_path, output_path), e0)
        ELSE Return("", e0)

-----------------------------------------------------------------------------
(* VideoProcessor.split_video *)

\* str(v)
PyRepr(v) ==
    CASE v.t = "int" -> ToString(v.i)
      [] v.t = "str" -> v.s
      [] v.t = "list" -> "[1]"
      [] OTHER -> "None"

\* the files the segmenting command writes: w.seg.n of them, numbered from 0
Written(dir, base, n) == {SegmentFile(dir, base, k) : k \in 0..(n - 1)}

\* for f in os.listdir(output_dir): startswith(f"{base_name}_segment_") and endswith(".mp4")
Listed(files, dir, base) ==
    {f \in files : f.kind = "segment" /\ f.dir = dir /\ f.base = base}

\* sorted(segments): the zero-padded index orders the paths
RECURSIVE Sorted(_)
Sorted(S) ==
    IF S = {} THEN <<>>
    ELSE LET m == CHOOSE f \in S : \A g \in S : f.idx <= g.idx
         IN  <<PathStr(m)>> \o Sorted(S \ {m})

\* also yields files, the disk after the call
split_video(video_path, segment_duration, output_dir, files, w) ==
    LET dir == IF output_dir.t = "absent" THEN DirOrDot(video_path) ELSE output_dir.s
        e0 == <<Ev("split_video", [video_path |-> video_path,
                                   segment_duration |-> segment_duration]),
                Ev("makedirs", dir)>>
        run == <<Ev("segment", PyRepr(segment_duration))>>
        after == files \cup Written(dir, Stem(video_path), w.seg.n)
        Rest(info) ==
            IF ~w.mkdirOk
            THEN [ret |-> Absent, ev |-> Caught("[Errno 13] Permission denied", e0),
                  exc |-> "[Errno 13] Permission denied", files |-> files]
            ELSE IF NoDuration(info.ret)
            THEN [ret |-> <<>>, ev |-> e0 \o info.ev, exc |-> "", files |-> files]
            ELSE IF ~w.ffmpegLaunch
            THEN [ret |-> Absent,
                  ev |-> Caught("[Errno 2] No such file or directory: 'ffmpeg'",
                                e0 \o info.ev \o run),
                  exc |-> "[Errno 2] No such file or directory: 'ffmpeg'",
                  files |-> files]
            ELSE [ret |-> Sorted(Listed(after, dir, Stem(video_path))),
                  ev |-> e0 \o info.ev \o run \o <<Ev("listdir", dir)>>,
                  exc |-> "", files |-> after]
    IN  Rest(get_video_info(video_path, w.probe))

-----------------------------------------------------------------------------
(* YouTubeDownloader *)

\* w.yt.info: "ok" or "raise", the outcome of ydl.extract_info
get_video_info_url(url, w) ==
    LET e0 == <<Ev("yt_extract_info", url)>>
    IN  IF w.yt.info = "raise"
        THEN Return([success |-> FALSE, error |-> "ERROR: Video unavailable",
                     title |-> ""], Caught("ERROR: Video unavailable", e0))
        ELSE Return([success |-> TRUE, error |-> "", title |-> "Title"], e0)

\* a variant that accepts the first entry that starts with the base name
FirstMatch_AnyPrefix(listing) ==
    LET hits == {k \in DOMAIN listing : listing[k].starts}
    IN  IF hits = {} THEN 0 ELSE CHOOSE k \in hits : \A j \in hits : k <= j

\* the first entry of the directory listing that starts with the base name and does
\* not end in ".part"; 0 when there is none
FirstMatch(listing) ==
    LET hits == {k \in DOMAIN listing : listing[k].starts /\ ~listing[k].part}
    IN  IF hits = {} THEN 0 ELSE CHOOSE k \in hits : \A j \in hits : k <= j

DownloadFailed(msg) == [success |-> FALSE, error |-> msg, video_path |-> ""]
Downloaded(path) == [success |-> TRUE, error |-> "", video_path |-> path]

\* w.yt.download: "ok" or "raise"; w.yt.mp4: the expected .mp4 path exists;
\* w.yt.listing: os.listdir(output_dir) after the download
download_video(url, output_dir, quality, w) ==
    LET dir == IF output_dir.t = "absent" THEN "~/video-downloads" ELSE output_dir.s
        e0 == <<Ev("download_video", url), Ev("makedirs", dir)>>
        e1 == e0 \o <<Ev("yt_extract_info", url)>>
        e2 == e1 \o <<Ev("yt_download", url)>>
        k == FirstMatch(w.yt.listing)
    IN  IF ~w.mkdirOk THEN Raise("[Errno 13] Permission denied", e0)
        ELSE IF w.yt.info = "raise"
        THEN Return(DownloadFailed("ERROR: Video unavailable"),
                    Caught("ERROR: Video unavailable", e1))
        ELSE IF w.yt.download = "raise"
        THEN Return(DownloadFailed("ERROR: unable to download video data"),
                    Caught("ERROR: unable to download video data", e2))
        ELSE IF w.yt.mp4 THEN Return(Downloaded(Join(dir, "Title.mp4")), e2)
        ELSE IF k # 0 THEN Return(Downloaded(Join(dir, w.yt.listing[k].name)), e2)
        ELSE Return(DownloadFailed("Download completed but file not found"), e2)

-----------------------------------------------------------------------------
(* AIAnalyzer *)

\* w.vision: "text", "empty" (the backend returns no content) or "raise"
analyze_frames(client, frame_paths, prompt, w) ==
    LET e0 == <<Ev("groq_vision", [client |-> client, frames |-> frame_paths])>>
    IN  IF w.vision = "raise" THEN Raise("Connection error.", e0)
        ELSE IF w.vision = "empty" THEN Return("", e0)
        ELSE Return("VISION", e0)

\* w.transcribe: "text", "empty" or "raise"
transcribe_audio(client, audio_path, w) ==
    LET e0 == <<Ev("groq_transcribe", [client |-> client, audio |-> audio_path])>>
    IN  IF w.transcribe = "raise" THEN Raise("Connection error.", e0)
        ELSE IF w.transcribe = "empty" THEN Return("", e0)
        ELSE Return("TRANSCRIPT", e0)

\* the dict analyze_video returns: keys are the keys present
Analysis(keys, error, visual, frames, transcript, audio_error) ==
    [keys |-> keys, error |-> error, visual_analysis |-> visual, frames |-> frames,
     transcript |-> transcript, audio_error |-> audio_error]

\* a variant without the try around the transcription
analyze_video_AudioStrict(client, video_path, prompt, num_frames, include_audio, w) ==
    LET e0 == <<Ev("analyze_video", [video_path |-> video_path,
                                     num_frames |-> num_frames,
                                     include_audio |-> include_audio])>>
        base == {"visual_analysis", "frames"}
        Audio(fr, vis, au, tr) ==
            IF au.exc # "" THEN Propagate(au.exc, e0 \o fr.ev \o vis.ev \o au.ev)
            ELSE IF au.ret = ""
            THEN Return(Analysis(base, "", vis.ret, fr.ret, "", ""),
                        e0 \o fr.ev \o vis.ev \o au.ev)
            ELSE IF tr.exc # ""
            THEN Propagate(tr.exc, e0 \o fr.ev \o vis.ev \o au.ev \o tr.ev)
            ELSE Return(Analysis(base \cup {"transcript"}, "", vis.ret, fr.ret, tr.ret,
                                 ""), e0 \o fr.ev \o vis.ev \o au.ev \o tr.ev)
        Visual(fr, vis, au) ==
            IF vis.exc # "" THEN Propagate(vis.exc, e0 \o fr.ev \o vis.ev)
            ELSE IF ~include_audio
            THEN Return(Analysis(base, "", vis.ret, fr.ret, "", ""), e0 \o fr.ev \o vis.ev)
            ELSE Audio(fr, vis, au, transcribe_audio(client, au.ret, w))
        Frames(fr) ==
            IF fr.exc # "" THEN Propagate(fr.exc, e0 \o fr.ev)
            ELSE IF fr.ret = <<>>
            THEN Return(Analysis({"error"}, "Failed to extract frames from video",
                                 "", <<>>, "", ""), e0 \o fr.ev)
            ELSE Visual(fr, analyze_frames(client, fr.ret, prompt, w),
                        extract_audio(video_path, Absent, w))
    IN  Frames(extract_frames(video_path, num_frames, Absent, w))

analyze_video(client, video_path, prompt, num_frames, include_audio, w) ==
    LET e0 == <<Ev("analyze_video", [video_path |-> video_path,
                                     num_frames |-> num_frames,
                                     include_audio |-> include_audio])>>
        base == {"visual_analysis", "frames"}
        Audio(fr, vis, au, tr) ==
            IF au.exc # "" THEN Propagate(au.exc, e0 \o fr.ev \o vis.ev \o au.ev)
            ELSE IF au.ret = ""
            THEN Return(Analysis(base, "", vis.ret, fr.ret, "", ""),
                        e0 \o fr.ev \o vis.ev \o au.ev)
            ELSE IF tr.exc # ""
            THEN Return(Analysis(base \cup {"audio_error"}, "", vis.ret, fr.ret, "",
                                 tr.exc), e0 \o fr.ev \o vis.ev \o au.ev \o tr.ev)
            ELSE Return(Analysis(base \cup {"transcript"}, "", vis.ret, fr.ret, tr.ret,
                                 ""), e0 \o fr.ev \o vis.ev \o au.ev \o tr.ev)
        Visual(fr, vis, au) ==
            IF vis.exc # "" THEN Propagate(vis.exc, e0 \o fr.ev \o vis.ev)
            ELSE IF ~include_audio
            THEN Return(Analysis(base, "", vis.ret, fr.ret, "", ""), e0 \o fr.ev \o vis.ev)
            ELSE Audio(fr, vis, au, transcribe_audio(client, au.ret, w))
        Frames(fr) ==
            IF fr.exc # "" THEN Propagate(fr.exc, e0 \o fr.ev)
            ELSE IF fr.ret = <<>>
            THEN Return(Analysis({"error"}, "Failed to extract frames from video",
                                 "", <<>>, "", ""), e0 \o fr.ev)
            ELSE Visual(fr, analyze_frames(client, fr.ret, prompt, w),
                        extract_audio(video_path, Absent, w))
    IN  Frames(extract_frames(video_path, num_frames, Absent, w))

-----------------------------------------------------------------------------
(* The global ai_analyzer *)

HasKey(env) == "GROQ_API_KEY" \in DOMAIN env /\ env["GROQ_API_KEY"] # ""

\* bool(os.environ.get("GROQ_API_KEY"))
check_api_key(env) == HasKey(env)

\* a variant that asks whether the variable is set, not whether it is non-empty
init_analyzer_IsSet(env, ai, w) ==
    IF "GROQ_API_KEY" \in DOMAIN env
    THEN [ret |-> TRUE, ai |-> ai + 1,
          ev |-> <<Ev("init_analyzer", ""), Ev("AIAnalyzer", ai + 1)>>]
    ELSE [ret |-> FALSE, ai |-> ai, ev |-> <<Ev("init_analyzer", "")>>]

\* a variant that builds the client with whatever os.environ.get returns
init_analyzer_WithoutKey(env, ai, w) ==
    IF w.ctor = "ok"
    THEN [ret |-> TRUE, ai |-> ai + 1,
          ev |-> <<Ev("init_analyzer", ""), Ev("AIAnalyzer", ai + 1)>>]
    ELSE [ret |-> FALSE, ai |-> ai,
          ev |-> <<Ev("init_analyzer", ""), Ev("AIAnalyzer", 0)>>]

\* w.ctor: "ok" or "raise", the outcome of AIAnalyzer(api_key).
\* Yields ret, the new value of the global (ai) and the operations.
init_analyzer(env, ai, w) ==
    IF HasKey(env)
    THEN IF w.ctor = "ok"
         THEN [ret |-> TRUE, ai |-> ai + 1,
               ev |-> <<Ev("init_analyzer", ""), Ev("AIAnalyzer", ai + 1)>>]
         ELSE [ret |-> FALSE, ai |-> ai,
               ev |-> <<Ev("init_analyzer", ""), Ev("AIAnalyzer", 0)>>]
    ELSE [ret |-> FALSE, ai |-> ai, ev |-> <<Ev("init_analyzer", "")>>]

-----------------------------------------------------------------------------
(* The catalog of list_tools *)

FFmpegTools == <<"get_video_info", "extract_video_frames", "extract_video_audio",
                 "split_video">>
YouTubeTools == <<"get_youtube_info", "download_youtube_video">>
AITools == <<"analyze_video", "summarize_video", "transcribe_video",
             "analyze_video_complete">>

\* a variant that leaves the YouTube tools out of the catalog
list_tools_LocalAndAI == FFmpegTools \o AITools

list_tools == FFmpegTools \o YouTubeTools \o AITools

Range(seq) == {seq[k] : k \in DOMAIN seq}

\* "maximum" of num_frames in the schema of a tool
SchemaMaxFrames(name) == IF name = "extract_video_frames" THEN 20 ELSE 10
\* "minimum" of num_frames in the schema of a tool
SchemaMinFrames(name) == IF name = "summarize_video" THEN 3 ELSE 1
\* "minimum" and "maximum" of segment_duration in the schema of split_video
SchemaMinSegment == 10
SchemaMaxSegment == 300

-----------------------------------------------------------------------------
(* call_tool: the branches *)

KeyMessage ==
    "Error: GROQ_API_KEY environment variable is required for AI features.\n"
    \o "Set it with: export GROQ_API_KEY=your-key\n"
    \o "Or use FFmpeg-only tools: get_video_info, extract_video_frames, extract_video_audio, split_video"

NoAnalysis == Analysis({}, "", "", <<>>, "", "")

\* what the body of call_tool's try block yields: the text of the result, or the
\* exception that reaches the outer handler
Out(text, e, files) ==
    [text |-> text, ev |-> e, exc |-> "", files |-> files, analysis |-> NoAnalysis]
OutA(text, e, files, analysis) ==
    [text |-> text, ev |-> e, exc |-> "", files |-> files, analysis |-> analysis]
Exc(msg, e, files) ==
    [text |-> "", ev |-> e, exc |-> msg, files |-> files, analysis |-> NoAnalysis]

\* f"{d:.2f}" of a whole number
Fmt2f(d) == (IF d < 0 THEN "-" ELSE "") \o ToString(IF d < 0 THEN -d ELSE d) \o ".00"

\* f"{d / 60:.1f}" of a whole number, exact for |d| < 9
Fmt1fMinutes(d) ==
    LET a == IF d < 0 THEN -d ELSE d
        tenths == (a + 3) \div 6
    IN  (IF d < 0 THEN "-" ELSE "") \o ToString(tenths \div 10) \o "."
        \o ToString(tenths % 10)

\* "\n".join(f"  {i + 1}. {item}" for i, item in enumerate(items))
RECURSIVE Numbered(_, _)
Numbered(items, k) ==
    IF k > Len(items) THEN ""
    ELSE (IF k > 1 THEN "\n" ELSE "") \o "  " \o ToString(k) \o ". " \o items[k]
         \o Numbered(items, k + 1)

\* min(v, cap) of a bag value and an int
PyMin(v, cap) ==
    IF v.t = "int" THEN Return(IF v.i < cap THEN v.i ELSE cap, <<>>)
    ELSE Raise("'<' not supported between instances of 'int' and '" \o v.t \o "'", <<>>)

tool_get_video_info(video_path, files, w) ==
    LET Format(r) ==
            IF "error" \in r.ret.keys THEN Out("Error: " \o r.ret.error, r.ev, files)
            ELSE Out("Video Information:\n- File: " \o r.ret.filename
                     \o "\n- Duration: " \o Fmt2f(r.ret.duration) \o " seconds ("
                     \o Fmt1fMinutes(r.ret.duration) \o " minutes)\n- Resolution: "
                     \o ToString(r.ret.width) \o "x" \o ToString(r.ret.height)
                     \o "\n- Video Codec: " \o r.ret.codec, r.ev, files)
    IN  Format(get_video_info(video_path, w.probe))

\* a variant that passes num_frames on as given
ClampFrames_AsGiven(name, arguments) ==
    LET v == Get(arguments, "num_frames", PyInt(IF name = "summarize_video" THEN 8 ELSE 5))
    IN  IF v.t = "int" THEN Return(v.i, <<>>) ELSE PyMin(v, SchemaMaxFrames(name))

\* the num_frames the dispatcher passes on for the tool: min(arguments.get(..), max)
ClampFrames(name, arguments) ==
    PyMin(Get(arguments, "num_frames",
              PyInt(IF name = "summarize_video" THEN 8 ELSE 5)),
          SchemaMaxFrames(name))

tool_extract_video_frames(arguments, video_path, env, files, w) ==
    LET Heading(frames) ==
            "Successfully extracted " \o ToString(Len(frames)) \o " frames:\n"
            \o Numbered(frames, 1)
        Format(r) ==
            IF r.exc # "" THEN Exc(r.exc, r.ev, files)
            ELSE IF r.ret # <<>>
            THEN Out(IF ~check_api_key(env)
                     THEN Heading(r.ret)
                          \o "\n\nYou can analyze these images with your AI model (Kimi)."
                     ELSE Heading(r.ret), r.ev, files)
            ELSE Out("Error: Failed to extract frames from video.", r.ev, files)
        Clamped(n) ==
            IF n.exc # "" THEN Exc(n.exc, n.ev, files)
            ELSE Format(extract_frames(video_path, n.ret,
                                       Get(arguments, "output_dir", Absent), w))
    IN  Clamped(ClampFrames("extract_video_frames", arguments))

tool_extract_video_audio(arguments, video_path, env, files, w) ==
    LET Format(r) ==
            IF r.exc # "" THEN Exc(r.exc, r.ev, files)
            ELSE IF r.ret # ""
            THEN Out(IF check_api_key(env)
                     THEN "Successfully extracted audio to:\n  " \o r.ret
                          \o "\n\nYou can transcribe this with: transcribe_video"
                     ELSE "Successfully extracted audio to:\n  " \o r.ret, r.ev, files)
            ELSE Out("Error: Failed to extract audio from video.", r.ev, files)
    IN  Format(extract_audio(video_path, Get(arguments, "output_path", Absent), w))

\* the segment_duration the dispatcher passes on: arguments.get("segment_duration", 60)
SegmentDuration(arguments) == Get(arguments, "segment_duration", PyInt(60))

tool_split_video(arguments, video_path, files, w) ==
    LET Format(segment_duration, r) ==
            IF r.exc # "" THEN Exc(r.exc, r.ev, r.files)
            ELSE IF r.ret # <<>>
            THEN Out("Successfully split into " \o ToString(Len(r.ret)) \o " segments ("
                     \o PyRepr(segment_duration) \o "s each):\n" \o Numbered(r.ret, 1),
                     r.ev, r.files)
            ELSE Out("Error: Failed to split video into segments.", r.ev, r.files)
        Passed(segment_duration) ==
            Format(segment_duration,
                   split_video(video_path, segment_duration,
                               Get(arguments, "output_dir", Absent), files, w))
    IN  Passed(SegmentDuration(arguments))

\* a variant that names the operation in the error text
tool_get_youtube_info_Named(arguments, files, w) ==
    LET Format(r) ==
            IF r.ret.success
            THEN Out("YouTube Video Information:\n- Title: " \o r.ret.title
                     \o "\n\nTo download this video, use: download_youtube_video",
                     r.ev, files)
            ELSE Out("Error getting video info: " \o r.ret.error, r.ev, files)
        Checked(url) ==
            IF ~Truthy(url) THEN Out("Error: YouTube URL is required", <<>>, files)
            ELSE Format(get_video_info_url(url.s, w))
    IN  Checked(Get(arguments, "url", PyStr("")))

tool_get_youtube_info(arguments, files, w) ==
    LET Format(r) ==
            IF r.ret.success
            THEN Out("YouTube Video Information:\n- Title: " \o r.ret.title
                     \o "\n\nTo download this video, use: download_youtube_video",
                     r.ev, files)
            ELSE Out("Error: " \o r.ret.error, r.ev, files)
        Checked(url) ==
            IF ~Truthy(url) THEN Out("Error: YouTube URL is required", <<>>, files)
            ELSE Format(get_video_info_url(url.s, w))
    IN  Checked(Get(arguments, "url", PyStr("")))

tool_download_youtube_video(arguments, files, w) ==
    LET Format(r) ==
            IF r.exc # "" THEN Exc(r.exc, r.ev, files)
            ELSE IF r.ret.success
            THEN Out("Successfully downloaded YouTube video!\n\nTitle: Title\n"
                     \o "Duration: 0 seconds (0.0 minutes)\nUploader: unknown\nSaved to: "
                     \o r.ret.video_path \o "\n\nYou can now analyze this video:\n"
                     \o "- Extract frames: extract_video_frames\n"
                     \o "- Extract audio: extract_video_audio\n"
                     \o "- Get info: get_video_info\n"
                     \o "- AI analysis: analyze_video (requires API key)", r.ev, files)
            ELSE Out("Error downloading video: " \o r.ret.error, r.ev, files)
        Checked(url) ==
            IF ~Truthy(url) THEN Out("Error: YouTube URL is required", <<>>, files)
            ELSE Format(download_video(url.s, Get(arguments, "output_dir", Absent),
                                       Get(arguments, "quality", PyStr("720p")), w))
    IN  Checked(Get(arguments, "url", PyStr("")))

\* analyze_video, summarize_video and analyze_video_complete
tool_analyze(name, arguments, video_path, ai, files, w) ==
    LET Text(analysis) ==
            CASE name = "analyze_video" ->
                   "=== AI Video Analysis ===\n\n" \o analysis.visual_analysis
                   \o "\n\nAnalyzed " \o ToString(Len(analysis.frames)) \o " frames."
              [] name = "summarize_video" ->
                   "=== Video Summary ===\n\n" \o analysis.visual_analysis
              [] OTHER ->
                   "=== VISUAL ANALYSIS ===\n" \o analysis.visual_analysis
                   \o (IF "transcript" \in analysis.keys
                       THEN "\n\n=== AUDIO TRANSCRIPTION ===\n" \o analysis.transcript
                       ELSE IF "audio_error" \in analysis.keys
                       THEN "\n\nNote: Audio analysis unavailable ("
                            \o analysis.audio_error \o ")"
                       ELSE "")
        Format(r) ==
            IF r.exc # "" THEN Exc(r.exc, r.ev, files)
            ELSE IF "error" \in r.ret.keys
            THEN OutA("Error: " \o r.ret.error, r.ev, files, r.ret)
            ELSE OutA(Text(r.ret), r.ev, files, r.ret)
        Clamped(n) ==
            IF n.exc # "" THEN Exc(n.exc, n.ev, files)
            ELSE IF ai = 0 THEN Out("Error: AI analyzer not available", <<>>, files)
            ELSE Format(analyze_video(ai, video_path, "prompt", n.ret,
                                      name = "analyze_video_complete", w))
    IN  Clamped(ClampFrames(name, arguments))

tool_transcribe_video(video_path, ai, files, w) ==
    LET Format(au, tr) ==
            IF tr.exc # ""
            THEN Out("Error transcribing audio: " \o tr.exc, au.ev \o tr.ev, files)
            ELSE Out("=== Audio Transcription ===\n\n" \o tr.ret, au.ev \o tr.ev, files)
        Extracted(au) ==
            IF au.exc # "" THEN Exc(au.exc, au.ev, files)
            ELSE IF au.ret = ""
            THEN Out("Error: Failed to extract audio from video", au.ev, files)
            ELSE Format(au, transcribe_audio(ai, au.ret, w))
    IN  IF ai = 0 THEN Out("Error: AI analyzer not available", <<>>, files)
        ELSE Extracted(extract_audio(video_path, Absent, w))

\* the if / elif chain on name
Route(name, arguments, video_path, ai, env, files, w) ==
    CASE name = "get_video_info" -> tool_get_video_info(video_path, files, w)
      [] name = "extract_video_frames" ->
            tool_extract_video_frames(arguments, video_path, env, files, w)
      [] name = "extract_video_audio" ->
            tool_extract_video_audio(arguments, video_path, env, files, w)
      [] name = "split_video" -> tool_split_video(arguments, video_path, files, w)
      [] name = "get_youtube_info" -> tool_get_youtube_info(arguments, files, w)
      [] name = "download_youtube_video" ->
            tool_download_youtube_video(arguments, files, w)
      [] name \in {"analyze_video", "summarize_video", "analyze_video_complete"} ->
            tool_analyze(name, arguments, video_path, ai, files, w)
      [] name = "transcribe_video" -> tool_transcribe_video(video_path, ai, files, w)
      [] OTHER -> Out("Unknown tool: " \o name, <<>>, files)

-----------------------------------------------------------------------------
(* call_tool *)

\* the body's yield with the operations of the prechecks put first
After(e, y) == [y EXCEPT !.ev = e \o y.ev]

\* a variant that evaluates the credential at every AI invocation
NeedsInit_Always(name, ai) == name \in Range(AITools)

\* if name in [the four AI tools]: if not ai_analyzer and not await init_analyzer()
NeedsInit(name, ai) == name \in Range(AITools) /\ ai = 0

\* a variant that checks a video_path that was not given too
FileMissing_Unguarded(video_path, files) == ~Exists(files, video_path.s)

\* if video_path and not os.path.exists(video_path), for a str video_path
FileMissing(video_path, files) == Truthy(video_path) /\ ~Exists(files, video_path.s)

\* a variant without the outer try: the exception leaves call_tool
Respond_NoOuterTry(body) ==
    IF body.exc = ""
    THEN [content |-> <<[type |-> "text", text |-> body.text]>>, raised |-> FALSE]
    ELSE [content |-> <<>>, raised |-> TRUE]

\* return [TextContent(type="text", text=result)], and the outer
\* except Exception as e: return [TextContent(type="text", text=f"Error: {str(e)}")].
\* raised: an exception leaves call_tool.
Respond(body) ==
    [content |-> <<[type |-> "text",
                    text |-> IF body.exc = "" THEN body.text ELSE "Error: " \o body.exc]>>,
     raised |-> FALSE]

\* a variant that checks the file before the credential
call_tool_FileFirst(name, arguments, ai, env, files, w) ==
    LET video_path == Get(arguments, "video_path", PyStr(""))
        seen == IF Truthy(video_path) THEN <<Ev("exists", PyRepr(video_path))>> ELSE <<>>
        badType == "stat: path should be string, bytes, os.PathLike or integer, not "
                   \o video_path.t
        refused == Truthy(video_path)
                   /\ (video_path.t # "str" \/ FileMissing(video_path, files))
        Body(init) ==
            IF Truthy(video_path) /\ video_path.t # "str"
            THEN Exc(badType, Caught(badType, seen), files)
            ELSE IF FileMissing(video_path, files)
            THEN Out("Error: Video file not found: " \o video_path.s, seen, files)
            ELSE IF NeedsInit(name, ai) /\ ~init.ret
            THEN Out(KeyMessage, seen \o init.ev, files)
            ELSE After(seen \o init.ev,
                       Route(name, arguments, video_path.s, init.ai, env, files, w))
        Result(init, body, response) ==
            [content |-> response.content, raised |-> response.raised,
             exc |-> body.exc, ev |-> body.ev, ai |-> IF refused THEN ai ELSE init.ai,
             files |-> body.files, analysis |-> body.analysis]
        Handled(init, body) == Result(init, body, Respond(body))
        Checked(init) == Handled(init, Body(init))
    IN  Checked(IF NeedsInit(name, ai) THEN init_analyzer(env, ai, w)
                ELSE [ret |-> TRUE, ai |-> ai, ev |-> <<>>])

\* Yields content (the list returned), raised, exc (the exception the outer handler
\* caught, "" when none), ev, ai and files (the global and the disk afterwards) and
\* analysis (the local of that name).
call_tool(name, arguments, ai, env, files, w) ==
    LET video_path == Get(arguments, "video_path", PyStr(""))
        seen == <<Ev("exists", PyRepr(video_path))>>
        badType == "stat: path should be string, bytes, os.PathLike or integer, not "
                   \o video_path.t
        Body(init) ==
            IF NeedsInit(name, ai) /\ ~init.ret THEN Out(KeyMessage, init.ev, files)
            ELSE IF Truthy(video_path) /\ video_path.t # "str"
            THEN Exc(badType, Caught(badType, init.ev \o seen), files)
            ELSE IF FileMissing(video_path, files)
            THEN Out("Error: Video file not found: " \o video_path.s,
                     init.ev \o seen, files)
            ELSE After(IF Truthy(video_path) THEN init.ev \o seen ELSE init.ev,
                       Route(name, arguments, video_path.s, init.ai, env, files, w))
        Result(init, body, response) ==
            [content |-> response.content, raised |-> response.raised,
             exc |-> body.exc, ev |-> body.ev, ai |-> init.ai,
             files |-> body.files, analysis |-> body.analysis]
        Handled(init, body) == Result(init, body, Respond(body))
        Checked(init) == Handled(init, Body(init))
    IN  Checked(IF NeedsInit(name, ai) THEN init_analyzer(env, ai, w)
                ELSE [ret |-> TRUE, ai |-> ai, ev |-> <<>>])

-----------------------------------------------------------------------------
(* The environment of one invocation *)

Envs == {<<>>, [GROQ_API_KEY |-> ""], [GROQ_API_KEY |-> "gsk_key"]}

DurationProbes ==
    {[rc |-> 1, out |-> Txt], [rc |-> 0, out |-> Txt]}
    \cup {[rc |-> 0, out |-> Num(d)] : d \in -1..MaxDuration}

SizeProbes ==
    {[rc |-> 1, fields |-> <<Txt>>], [rc |-> 0, fields |-> <<Txt>>],
     [rc |-> 0, fields |-> <<Num(1280), Num(720)>>],
     [rc |-> 0, fields |-> <<Num(1280), Num(720), Txt>>],
     [rc |-> 0, fields |-> <<Txt, Txt>>]}

CodecProbes ==
    {[rc |-> 1, out |-> ""], [rc |-> 0, out |-> "h264"], [rc |-> 0, out |-> ""]}

GoodSize == [rc |-> 0, fields |-> <<Num(1280), Num(720)>>]
GoodCodec == [rc |-> 0, out |-> "h264"]

\* ffprobe cannot be launched
NoProbe ==
    [launch |-> FALSE, dur |-> [rc |-> 1, out |-> Txt],
     size |-> [rc |-> 1, fields |-> <<Txt>>], codec |-> [rc |-> 1, out |-> ""]]

\* every probe exits non-zero: what ffprobe does with a path that is no file
FailedProbe == [NoProbe EXCEPT !.launch = TRUE]

\* every outcome of the three probes
AllProbes ==
    {NoProbe} \cup [launch : {TRUE}, dur : DurationProbes, size : SizeProbes,
                    codec : CodecProbes]

\* the outcomes that differ in what extract_frames and split_video read
DurationOnlyProbes ==
    {NoProbe}
    \cup [launch : {TRUE}, dur : DurationProbes, size : {GoodSize}, codec : {GoodCodec}]
    \cup {[launch |-> TRUE, dur |-> [rc |-> 0, out |-> Num(MaxDuration)],
           size |-> [rc |-> 0, fields |-> <<Txt, Txt>>], codec |-> GoodCodec]}

GoodYt ==
    [info |-> "ok", download |-> "ok", mp4 |-> TRUE, listing |-> <<>>]

\* a directory entry: starts (with the expected base name), part (ends in ".part")
Entry(name, starts, part) == [name |-> name, starts |-> starts, part |-> part]

Listings ==
    {<<>>,
     <<Entry("Other.mp4", FALSE, FALSE)>>,
     <<Entry("Title.mp4.part", TRUE, TRUE)>>,
     <<Entry("Title.mp4.part", TRUE, TRUE), Entry("Title.webm", TRUE, FALSE)>>,
     <<Entry("Title.mkv", TRUE, FALSE), Entry("Title.webm", TRUE, FALSE)>>,
     <<Entry("Other.mp4", FALSE, FALSE), Entry("Title 2.mp4", TRUE, FALSE)>>}

YtOutcomes ==
    {GoodYt, [GoodYt EXCEPT !.info = "raise"], [GoodYt EXCEPT !.download = "raise"]}
    \cup {[GoodYt EXCEPT !.mp4 = FALSE, !.listing = l] : l \in Listings}

\* everything works: a video of MaxDuration ticks, every frame captured
W0 ==
    [mkdirOk |-> TRUE, ffmpegLaunch |-> TRUE,
     probe |-> [launch |-> TRUE, dur |-> [rc |-> 0, out |-> Num(MaxDuration)],
                size |-> GoodSize, codec |-> GoodCodec],
     frameFail |-> {}, audio |-> "ok", seg |-> [rc |-> 0, n |-> MaxSegments],
     vision |-> "text", transcribe |-> "text", ctor |-> "ok", yt |-> GoodYt]

\* the frames whose capture fails: none, one of them, all of them
FrameFailures == {{}, {1}, {2}, 1..20}

\* the segmenting command: exit status and number of files written
SegmentOutcomes ==
    {[rc |-> 0, n |-> k] : k \in 0..MaxSegments} \cup {[rc |-> 1, n |-> k] : k \in 0..1}

\* a path that is no file: every command given it exits non-zero and writes nothing
WNoFile ==
    [W0 EXCEPT !.probe = FailedProbe, !.frameFail = 1..20, !.audio = "fail",
               !.seg = [rc |-> 1, n |-> 0]]

\* mkdir or the launch of ffmpeg may fail whatever the tool
Breakdowns(w) ==
    {w, [w EXCEPT !.mkdirOk = FALSE], [w EXCEPT !.ffmpegLaunch = FALSE, !.audio = "nolaunch"]}

FrameWorlds ==
    {[W0 EXCEPT !.probe = p, !.frameFail = f] : p \in DurationOnlyProbes, f \in FrameFailures}
    \cup Breakdowns(W0)

SplitWorlds ==
    {[W0 EXCEPT !.probe = p, !.seg = g] : p \in DurationOnlyProbes, g \in SegmentOutcomes}
    \cup Breakdowns(W0)

AudioWorlds == Breakdowns(W0) \cup {[W0 EXCEPT !.audio = "fail"]}

\* the worlds of an AI tool: one departure from W0, and the pairs the analysis reads
AIWorlds ==
    {[W0 EXCEPT !.probe = p] : p \in DurationOnlyProbes}
    \cup {[W0 EXCEPT !.frameFail = f, !.vision = v, !.audio = a, !.transcribe = t] :
            f \in {{}, {1}, 1..20}, v \in {"text", "empty", "raise"},
            a \in {"ok", "fail"}, t \in {"text", "raise"}}
    \cup {[W0 EXCEPT !.transcribe = "empty"], [W0 EXCEPT !.ctor = "raise"]}
    \cup Breakdowns(W0)

-----------------------------------------------------------------------------
(* The requests *)

Args(video_path, num_frames, segment_duration, output_dir, url) ==
    [video_path |-> video_path, num_frames |-> num_frames,
     segment_duration |-> segment_duration, output_dir |-> output_dir,
     output_path |-> Absent, url |-> url, quality |-> Absent, prompt |-> Absent]

VideoPaths == {Absent, PyStr(""), PyStr(ExistingVideo), PyStr(MissingVideo), PyList}

\* the worlds a tool can meet with this video_path: a path that is no file makes
\* every command fail; a path the precheck refuses reaches no command
WorldsFor(video_path, worlds) ==
    IF video_path = PyStr(ExistingVideo) THEN worlds
    ELSE IF video_path \in {Absent, PyStr("")}
    THEN Breakdowns(WNoFile) \cup {[WNoFile EXCEPT !.ctor = "raise"]}
    ELSE {W0, [W0 EXCEPT !.ctor = "raise"]}

FrameCounts == {Absent, PyStr("five"), PyInt(50)} \cup {PyInt(n) : n \in -2..21}
AIFrameCounts == {Absent, PyStr("five")} \cup {PyInt(n) : n \in {-1, 0, 1, 2, 3, 4, 9, 10, 11, 50}}
SegmentDurations ==
    {Absent, PyList} \cup {PyInt(n) : n \in {-5, 0, 5, 9, 10, 60, 300, 301, 500}}
OutputDirs == {Absent, PyStr("/out")}
Urls == {Absent, PyStr(""), PyStr("https://youtu.be/x")}
UnknownNames == {"does_not_exist", ""}

Req(name, arguments, w) == [name |-> name, arguments |-> arguments, w |-> w]

Requests ==
    {Req("get_video_info", Args(v, Absent, Absent, Absent, Absent), w) :
        v \in VideoPaths, w \in {[W0 EXCEPT !.probe = p] : p \in AllProbes}}
    \cup UNION {{Req("extract_video_frames", Args(v, n, Absent, o, Absent), w) :
                    n \in FrameCounts, o \in OutputDirs, w \in WorldsFor(v, FrameWorlds)} :
                v \in VideoPaths}
    \cup UNION {{Req("extract_video_audio", Args(v, Absent, Absent, Absent, Absent), w) :
                    w \in WorldsFor(v, AudioWorlds)} : v \in VideoPaths}
    \cup UNION {{Req("split_video", Args(v, Absent, d, Absent, Absent), w) :
                    d \in SegmentDurations, w \in WorldsFor(v, SplitWorlds)} :
                v \in VideoPaths}
    \cup {Req(t, Args(Absent, Absent, Absent, Absent, u), [W0 EXCEPT !.yt = y]) :
            t \in Range(YouTubeTools), u \in Urls, y \in YtOutcomes}
    \cup {Req("download_youtube_video", Args(Absent, Absent, Absent, Absent, u),
              [W0 EXCEPT !.mkdirOk = FALSE]) : u \in Urls}
    \cup UNION {{Req(t, Args(v, n, Absent, Absent, Absent), w) :
                    t \in {"analyze_video", "summarize_video", "analyze_video_complete"},
                    n \in AIFrameCounts, w \in WorldsFor(v, AIWorlds)} :
                v \in VideoPaths}
    \cup UNION {{Req("transcribe_video", Args(v, Absent, Absent, Absent, Absent), w) :
                    w \in WorldsFor(v, AIWorlds)} : v \in VideoPaths}
    \cup {Req(t, Args(v, n, Absent, Absent, u), W0) :
            t \in UnknownNames, v \in VideoPaths, n \in {Absent, PyInt(50)}, u \in Urls}

-----------------------------------------------------------------------------
(* The process *)

NoRequest == Req("", Args(Absent, Absent, Absent, Absent, Absent), W0)

NoHist == [evaluated |-> "unset", failed |-> FALSE]

NoLast ==
    [req |-> NoRequest, content |-> <<>>, raised |-> FALSE, exc |-> "", ev |-> <<>>,
     analysis |-> NoAnalysis, ai0 |-> 0, env |-> <<>>, fs0 |-> {}, tools |-> <<>>,
     hist0 |-> NoHist]

\* the answers that report a failure of the backend without an exception
FailureTexts ==
    {"Error: Failed to extract frames from video.",
     "Error: Failed to extract audio from video.",
     "Error: Failed to split video into segments.",
     "Error: Failed to extract frames from video",
     "Error: Failed to extract audio from video",
     "Error downloading video: Download completed but file not found"}

\* the invocation failed: an exception was raised, a precheck or the routing
\* answered before any backend operation, or the backend reported a failure
Failed(res) ==
    \/ res.exc # ""
    \/ \E k \in DOMAIN res.ev : res.ev[k].op = "raise"
    \/ \A k \in DOMAIN res.ev : res.ev[k].op \in {"init_analyzer", "AIAnalyzer", "exists"}
    \/ res.content[1].text \in FailureTexts

\* the first evaluation of the credential, by main() or by init_analyzer()
Evaluated(before, evaluates, env) ==
    IF before = "unset" /\ evaluates
    THEN IF HasKey(env) THEN "present" ELSE "absent"
    ELSE before

\* no invocation is dispatched concurrently: no coroutine runs, none was created
NoLoop == [running |-> 0, tasks |-> <<>>, built |-> {}]

Init ==
    /\ ai_analyzer = 0
    /\ environ \in Envs
    /\ fs = {VideoFile(ExistingVideo)}
    /\ pc = "start"
    /\ last = NoLast
    /\ hist = NoHist
    /\ loop = NoLoop

\* main(): initialise the analyzer when the key is there, then serve
Main ==
    /\ pc = "start"
    /\ \E c \in {"ok", "raise"} :
         ai_analyzer' = IF check_api_key(environ)
                        THEN init_analyzer(environ, ai_analyzer, [W0 EXCEPT !.ctor = c]).ai
                        ELSE ai_analyzer
    /\ hist' = [hist EXCEPT !.evaluated = Evaluated(@, TRUE, environ)]
    /\ pc' = "idle"
    /\ UNCHANGED <<environ, fs, last, loop>>

\* the module is imported and its functions called without main(), as the tests do
Import ==
    /\ pc = "start"
    /\ pc' = "idle"
    /\ UNCHANGED <<ai_analyzer, environ, fs, last, hist, loop>>

\* code of the same process sets or removes GROQ_API_KEY, between two requests
SetEnv ==
    /\ pc \in {"start", "idle"}
    /\ \E e \in Envs \ {environ} : environ' = e
    /\ UNCHANGED <<ai_analyzer, fs, pc, last, hist, loop>>

\* one request handled from start to end
CallTool ==
    /\ pc = "idle"
    /\ \E r \in Requests :
         LET Returned(res) ==
                 /\ ai_analyzer' = res.ai
                 /\ fs' = res.files
                 /\ last' = [req |-> r, content |-> res.content, raised |-> res.raised,
                             exc |-> res.exc, ev |-> res.ev, analysis |-> res.analysis,
                             ai0 |-> ai_analyzer, env |-> environ, fs0 |-> fs,
                             tools |-> <<>>, hist0 |-> hist]
                 /\ hist' = [evaluated |->
                                Evaluated(hist.evaluated,
                                          \E k \in DOMAIN res.ev :
                                              res.ev[k].op = "init_analyzer", environ),
                             failed |-> hist.failed \/ Failed(res)]
         IN  Returned(call_tool(r.name, r.arguments, ai_analyzer, environ, fs, r.w))
    /\ pc' = "done"
    /\ UNCHANGED <<environ, loop>>

\* a variant of the loop that ends when an exception reached the outer handler
Deliver_UnlessException ==
    /\ pc \in {"done", "listed"}
    /\ last.exc = ""
    /\ pc' = "idle"
    /\ last' = NoLast
    /\ UNCHANGED <<ai_analyzer, environ, fs, hist, loop>>

\* the protocol loop sends the response and awaits the next request
Deliver ==
    /\ pc \in {"done", "listed"}
    /\ pc' = "idle"
    /\ last' = NoLast
    /\ UNCHANGED <<ai_analyzer, environ, fs, hist, loop>>

\* a list_tools request handled: the catalog is returned, nothing else changes
ListTools ==
    /\ pc = "idle"
    /\ pc' = "listed"
    /\ last' = [NoLast EXCEPT !.tools = list_tools]
    /\ UNCHANGED <<ai_analyzer, environ, fs, hist, loop>>

Next == Main \/ Import \/ SetEnv \/ CallTool \/ ListTools \/ Deliver

Spec == Init /\ [][Next]_vars

\* the protocol loop goes on to await the next request once a handler has returned
LiveSpec == Spec /\ WF_vars(Deliver)

-----------------------------------------------------------------------------
(* Concurrent invocations on one event loop *)
(*                                                                         *)
(* call_tool is a coroutine.  The event loop runs one coroutine at a time  *)
(* and switches to another one only where the running coroutine suspends.  *)
(* Each action below is the code one coroutine runs between two points     *)
(* where an await is reached; loop.running is the coroutine that holds the *)
(* thread, 0 when every coroutine is suspended or finished.                *)

\* the coroutines of call_tool that can be alive at the same time
Tasks == 1..NumTasks

\* a variant in which every await hands the thread back to the event loop
Suspends_EveryAwait(site) == TRUE

\* whether the coroutine suspends at this await.  Awaiting a coroutine runs it
\* inline up to its own first suspension: init_analyzer has no await in its body
\* and analyze_video, analyze_frames and transcribe_audio suspend only in the
\* requests they send to the Groq API.
Suspends(site) == site \in {"chat.completions.create", "audio.transcriptions.create"}

\* a coroutine that was not created
NoTask == [pc |-> "new", name |-> "", video_path |-> Absent, ai0 |-> 0, client |-> 0,
           answer |-> ""]

\* the coroutine t may run: it holds the thread, or no coroutine does
Runs(t) == loop.running \in {0, t}

\* task t goes to position at with these fields; it keeps the thread unless it
\* suspends or returns
Goes(t, task, keeps) ==
    loop' = [loop EXCEPT !.tasks[t] = task, !.running = IF keeps THEN t ELSE 0]

\* call_tool returns this answer
Returns(t, answer) ==
    Goes(t, [loop.tasks[t] EXCEPT !.pc = "done", !.answer = answer], FALSE)

\* the process serves, with or without a client built at startup
ConcInit ==
    /\ ai_analyzer \in {0, 1}
    /\ environ \in Envs
    /\ fs = {VideoFile(ExistingVideo)}
    /\ pc = "idle"
    /\ last = NoLast
    /\ hist = NoHist
    /\ loop = [running |-> 0, tasks |-> [t \in Tasks |-> NoTask], built |-> {}]

\* the server creates a call_tool coroutine for a request to an AI tool
Dispatch(t) ==
    /\ loop.running = 0
    /\ loop.tasks[t].pc = "new"
    /\ \E name \in Range(AITools), v \in {PyStr(ExistingVideo), PyStr(MissingVideo)} :
         Goes(t, [NoTask EXCEPT !.pc = "ready", !.name = name, !.video_path = v,
                                !.ai0 = ai_analyzer], FALSE)
    /\ UNCHANGED <<ai_analyzer, environ, fs, pc, last, hist>>

\* if name in [the AI tools]: if not ai_analyzer and ... : the global is read, and
\* init_analyzer() is awaited when it is None
Check(t) ==
    /\ Runs(t)
    /\ loop.tasks[t].pc = "ready"
    /\ IF NeedsInit(loop.tasks[t].name, ai_analyzer)
       THEN Goes(t, [loop.tasks[t] EXCEPT !.pc = "init"], ~Suspends("init_analyzer"))
       ELSE Goes(t, [loop.tasks[t] EXCEPT !.pc = "file"], TRUE)
    /\ UNCHANGED <<ai_analyzer, environ, fs, pc, last, hist>>

\* the body of init_analyzer(), and the return with the credential message when
\* it yields False
InitAnalyzer(t) ==
    /\ Runs(t)
    /\ loop.tasks[t].pc = "init"
    /\ \E c \in {"ok", "raise"} :
         LET Returned(r) ==
                 /\ ai_analyzer' = r.ai
                 /\ loop' = [loop EXCEPT
                        !.built = IF r.ai # ai_analyzer THEN @ \cup {r.ai} ELSE @,
                        !.tasks[t] = IF r.ret THEN [@ EXCEPT !.pc = "file"]
                                     ELSE [@ EXCEPT !.pc = "done", !.answer = "key"],
                        !.running = IF r.ret THEN t ELSE 0]
         IN  Returned(init_analyzer(environ, ai_analyzer, [W0 EXCEPT !.ctor = c]))
    /\ UNCHANGED <<environ, fs, pc, last, hist>>

\* if video_path and not os.path.exists(video_path)
FileCheck(t) ==
    /\ Runs(t)
    /\ loop.tasks[t].pc = "file"
    /\ IF FileMissing(loop.tasks[t].video_path, fs)
       THEN Returns(t, "notfound")
       ELSE Goes(t, [loop.tasks[t] EXCEPT !.pc = "backend"], TRUE)
    /\ UNCHANGED <<ai_analyzer, environ, fs, pc, last, hist>>

\* the branch of an AI tool up to its first request to the Groq API: the global
\* is read, the frames (the audio, for transcribe_video) are extracted
Backend(t) ==
    /\ Runs(t)
    /\ loop.tasks[t].pc = "backend"
    /\ IF ai_analyzer = 0
       THEN Returns(t, "unavailable")
       ELSE \E extracted \in BOOLEAN :
              IF ~extracted
              THEN Returns(t, "failed")
              ELSE IF loop.tasks[t].name = "transcribe_video"
              THEN Goes(t, [loop.tasks[t] EXCEPT !.pc = "audio", !.client = ai_analyzer],
                        ~Suspends("audio.transcriptions.create"))
              ELSE Goes(t, [loop.tasks[t] EXCEPT !.pc = "vision", !.client = ai_analyzer],
                        ~Suspends("chat.completions.create"))
    /\ UNCHANGED <<ai_analyzer, environ, fs, pc, last, hist>>

\* the Groq API answers the request of t, or the request raises: the coroutine
\* goes on to its next request or returns
Resume(t) ==
    /\ Runs(t)
    /\ loop.tasks[t].pc \in {"vision", "audio"}
    /\ \E answered \in BOOLEAN, audio \in BOOLEAN :
         IF loop.tasks[t].pc = "vision" /\ ~answered
         THEN Returns(t, "exception")
         ELSE IF loop.tasks[t].pc = "vision" /\ audio
                 /\ loop.tasks[t].name = "analyze_video_complete"
         THEN Goes(t, [loop.tasks[t] EXCEPT !.pc = "audio"],
                   ~Suspends("audio.transcriptions.create"))
         ELSE IF loop.tasks[t].pc = "audio" /\ ~answered
                 /\ loop.tasks[t].name = "transcribe_video"
         THEN Returns(t, "failed")
         ELSE Returns(t, "ok")
    /\ UNCHANGED <<ai_analyzer, environ, fs, pc, last, hist>>

ConcNext ==
    \E t \in Tasks :
        Dispatch(t) \/ Check(t) \/ InitAnalyzer(t) \/ FileCheck(t) \/ Backend(t) \/ Resume(t)

ConcSpec == ConcInit /\ [][ConcNext]_vars

-----------------------------------------------------------------------------
(* Reading the request just handled *)

Done == pc = "done"
Name == last.req.name
Arg(key) == last.req.arguments[key]
Ops == {last.ev[k].op : k \in DOMAIN last.ev}
Events(op) == {k \in DOMAIN last.ev : last.ev[k].op = op}

\* the response is the one text item with this text
Answers(text) == last.content = <<[type |-> "text", text |-> text]>>

AIToolNames == {"analyze_video", "summarize_video", "transcribe_video",
                "analyze_video_complete"}
VideoPathToolNames ==
    {"get_video_info", "extract_video_frames", "extract_video_audio", "split_video"}
    \cup AIToolNames
CatalogNames == VideoPathToolNames \cup {"get_youtube_info", "download_youtube_video"}
FrameToolNames ==
    {"extract_video_frames", "analyze_video", "summarize_video", "analyze_video_complete"}

VideoProcessorOps ==
    {"get_video_info", "extract_frames", "extract_audio", "split_video", "makedirs",
     "ffprobe", "capture", "ffmpeg_audio", "segment", "listdir"}
GroqOps == {"groq_vision", "groq_transcribe"}
BackendOps ==
    VideoProcessorOps \cup GroqOps
    \cup {"analyze_video", "download_video", "yt_extract_info", "yt_download"}

\* GROQ_API_KEY is absent or empty
KeyAbsentOrEmpty(env) == \A k \in DOMAIN env : env[k] = ""

\* the path is on the disk the request found
OnDisk(p) == \E f \in last.fs0 : PathStr(f) = p

\* the request handled again, with num_frames = n
WithFrames(n) ==
    call_tool(Name, [last.req.arguments EXCEPT !.num_frames = PyInt(n)], last.ai0,
              last.env, last.fs0, last.req.w)

\* what the metadata probe of the request reports
Probed == get_video_info(Get(last.req.arguments, "video_path", PyStr("")).s,
                         last.req.w.probe).ret

-----------------------------------------------------------------------------
(* C1 *)

C1_Message ==
    "Error: GROQ_API_KEY environment variable is required for AI features.\nSet it with: export GROQ_API_KEY=your-key\nOr use FFmpeg-only tools: get_video_info, extract_video_frames, extract_video_audio, split_video"

C1_NoCredential ==
    Done /\ Name \in AIToolNames /\ last.ai0 = 0 /\ KeyAbsentOrEmpty(last.env)

\* C1: an AI tool called while no client exists and GROQ_API_KEY is absent or empty
\* answers with the fixed three-line message, and the invocation performs no
\* VideoProcessor operation, no file-existence check and no Groq call.
C1_CredentialMessage ==
    C1_NoCredential =>
        /\ Answers(C1_Message)
        /\ Ops \cap (BackendOps \cup {"exists", "AIAnalyzer"}) = {}

\* an AI tool refused for an empty key although its video_path does not exist
C1_Witness ==
    /\ C1_NoCredential
    /\ last.env = [GROQ_API_KEY |-> ""]
    /\ Arg("video_path") = PyStr(MissingVideo)
    /\ Answers(C1_Message)

-----------------------------------------------------------------------------
(* C2 *)

C2_NotFound ==
    /\ Answers("Error: Video file not found: " \o Arg("video_path").s)
    /\ Ops \cap BackendOps = {}

C2_MissingPath ==
    /\ Done
    /\ Name \in VideoPathToolNames
    /\ Arg("video_path").t = "str"
    /\ Arg("video_path").s # ""
    /\ ~OnDisk(Arg("video_path").s)

\* C2 as stated: every tool that declares video_path, credential present or not,
\* answers a path that does not exist with the file-not-found error and invokes no
\* backend operation.
C2_Original == C2_MissingPath => C2_NotFound

\* C2 as amended: the file-not-found error is the answer whenever the invocation
\* passes the credential precheck (the tool is no AI tool, or an AI client exists
\* or is built); an AI tool that fails that precheck answers with the credential
\* message instead.
C2_FileNotFound ==
    C2_MissingPath =>
        IF Name \in AIToolNames /\ ai_analyzer = 0
        THEN Answers(C1_Message)
        ELSE C2_NotFound

\* an AI tool that builds its client in this invocation and then misses the file
C2_Witness ==
    /\ C2_MissingPath
    /\ Name = "summarize_video"
    /\ last.ai0 = 0
    /\ ai_analyzer # 0
    /\ C2_NotFound

-----------------------------------------------------------------------------
(* C3 *)

C3_UnknownAnswer ==
    /\ Answers("Unknown tool: " \o Name)
    /\ Ops \cap BackendOps = {}

C3_UnknownName == Done /\ Name \notin CatalogNames

-----------------------------------------------------------------------------
(* C4 *)

C4_OneTextItem ==
    ~last.raised /\ Len(last.content) = 1 /\ last.content[1].type = "text"

\* C4 as stated: call_tool never raises, returns exactly one text item, and every
\* exception raised during the invocation is rendered "Error: <exception message>".
C4_Original ==
    Done =>
        /\ C4_OneTextItem
        /\ \A k \in Events("raise") : Answers("Error: " \o last.ev[k].a)

\* C4 as amended: call_tool never raises and returns exactly one text item; an
\* exception that reaches its outer handler is rendered "Error: <exception
\* message>", and a transcription exception in transcribe_video, caught by the
\* inner handler, is rendered "Error transcribing audio: <exception message>".
C4_NeverRaises ==
    Done =>
        /\ C4_OneTextItem
        /\ last.exc # "" => Answers("Error: " \o last.exc)
        /\ (Name = "transcribe_video" /\ last.exc = "") =>
              \A k \in Events("raise") :
                  Answers("Error transcribing audio: " \o last.ev[k].a)

\* a division by zero in the backend, rendered by the outer handler
C4_Witness ==
    /\ Done
    /\ last.exc = "float division by zero"
    /\ "extract_frames" \in Ops
    /\ Answers("Error: float division by zero")

-----------------------------------------------------------------------------
(* C5 *)

C5_DeclaredMax == IF Name = "extract_video_frames" THEN 20 ELSE 10

C5_OverMax ==
    /\ Done
    /\ Name \in FrameToolNames
    /\ Arg("num_frames").t = "int"
    /\ Arg("num_frames").i > C5_DeclaredMax

\* C5: a num_frames above the declared maximum reaches the backend as the maximum,
\* and the invocation does what the invocation with num_frames = maximum does.
C5_ClampedToMax ==
    C5_OverMax =>
        /\ \A k \in Events("extract_frames") :
              last.ev[k].a.num_frames = C5_DeclaredMax
        /\ last.content = WithFrames(C5_DeclaredMax).content
        /\ last.ev = WithFrames(C5_DeclaredMax).ev
        /\ ai_analyzer = WithFrames(C5_DeclaredMax).ai
        /\ fs = WithFrames(C5_DeclaredMax).files

\* analyze_video with num_frames = 50 extracts 10 frames and analyses them
C5_Witness ==
    /\ C5_OverMax
    /\ Name = "analyze_video"
    /\ Arg("num_frames") = PyInt(50)
    /\ \E k \in Events("extract_frames") : last.ev[k].a.num_frames = 10
    /\ Cardinality(Events("capture")) = 10
    /\ "groq_vision" \in Ops

-----------------------------------------------------------------------------
(* C6 *)

C6_DeclaredMin == IF Name = "summarize_video" THEN 3 ELSE 1

C6_UnderMin ==
    /\ Done
    /\ Name \in FrameToolNames
    /\ Arg("num_frames").t = "int"
    /\ Arg("num_frames").i < C6_DeclaredMin

\* C6: a num_frames below the declared minimum reaches the backend as the minimum,
\* and the invocation answers what the invocation with num_frames = minimum answers.
C6_RaisedToMin ==
    C6_UnderMin =>
        /\ \A k \in Events("extract_frames") :
              last.ev[k].a.num_frames = C6_DeclaredMin
        /\ last.content = WithFrames(C6_DeclaredMin).content

-----------------------------------------------------------------------------
(* C7 *)

C7_OutOfRange ==
    /\ Done
    /\ Name = "split_video"
    /\ Arg("segment_duration").t = "int"
    /\ Arg("segment_duration").i \notin 10..300

\* C7: a segment_duration outside 10..300 reaches VideoProcessor.split_video as a
\* value inside 10..300.
C7_SegmentClamped ==
    C7_OutOfRange =>
        \A k \in Events("split_video") :
            last.ev[k].a.segment_duration.i \in 10..300

-----------------------------------------------------------------------------
(* C8 *)

IsCapture(e) == e.op = "capture"
Captures == SelectSeq(last.ev, IsCapture)

\* the count extract_frames was called with
C8_Count == last.ev[CHOOSE k \in Events("extract_frames") : TRUE].a.num_frames

C8_Extracting ==
    /\ Done
    /\ Events("extract_frames") # {}
    /\ C8_Count \in 1..20
    /\ "error" \notin Probed.keys
    /\ Probed.duration > 0
    /\ last.req.w.mkdirOk
    /\ last.req.w.ffmpegLaunch

\* C8: extract_frames with a count n in 1..20 on a video of positive duration d
\* makes exactly n capture attempts; attempt i is at i * d / (n + 1), so the
\* timestamps increase strictly and lie strictly between 0 and d.
C8_EvenTimestamps ==
    C8_Extracting =>
        LET n == C8_Count
            d == Probed.duration
            ts(i) == Captures[i].a.ts
        IN  /\ Len(Captures) = n
            /\ \A i \in 1..n :
                  /\ Captures[i].a.i = i
                  /\ ts(i)[2] > 0
                  /\ ts(i)[1] * (n + 1) = i * d * ts(i)[2]
                  /\ 0 < ts(i)[1]
                  /\ ts(i)[1] < d * ts(i)[2]
                  /\ i < n => ts(i)[1] * ts(i + 1)[2] < ts(i + 1)[1] * ts(i)[2]

\* twenty frames of the longest video, the second capture failing
C8_Witness ==
    /\ C8_Extracting
    /\ Name = "extract_video_frames"
    /\ C8_Count = 20
    /\ Probed.duration = MaxDuration
    /\ Len(Captures) = 20
    /\ last.req.w.frameFail = {2}

-----------------------------------------------------------------------------
(* C9 *)

C9_NoDuration ==
    /\ Done
    /\ Events("extract_frames") # {} \/ Events("split_video") # {}
    /\ "ffprobe" \in Ops
    /\ "error" \in Probed.keys \/ Probed.duration <= 0

\* C9: when the metadata probe fails or reports a duration that is not positive,
\* split_video and extract_frames run no capture and no segment command, do not
\* list the output directory, leave the disk as it is and return the empty
\* sequence, which their callers answer with their failure text.
C9_EmptyWithoutCommand ==
    C9_NoDuration =>
        /\ Ops \cap {"capture", "segment", "listdir"} = {}
        /\ fs = last.fs0
        /\ last.exc = ""
        /\ Name = "extract_video_frames" =>
              Answers("Error: Failed to extract frames from video.")
        /\ Name = "split_video" =>
              Answers("Error: Failed to split video into segments.")
        /\ Name \in AIToolNames => last.analysis.keys = {"error"}

\* split_video on a video of duration 0 while segments of an earlier run are on disk
C9_Witness ==
    /\ C9_NoDuration
    /\ Name = "split_video"
    /\ "error" \notin Probed.keys
    /\ Probed.duration = 0
    /\ \E f \in last.fs0 : f.kind = "segment"
    /\ Answers("Error: Failed to split video into segments.")

-----------------------------------------------------------------------------
(* C10 *)

C10_AudioFails ==
    /\ Done
    /\ Name = "analyze_video_complete"
    /\ "groq_vision" \in Ops
    /\ last.req.w.vision # "raise"
    /\ "extract_audio" \in Ops
    /\ last.req.w.audio = "fail"

\* C10: analyze_video with audio included, when frame extraction and visual
\* analysis succeed and the audio extraction fails, returns the visual analysis
\* together with a non-empty audio_error.
C10_AudioErrorRecorded ==
    C10_AudioFails =>
        /\ "error" \notin last.analysis.keys
        /\ "visual_analysis" \in last.analysis.keys
        /\ "audio_error" \in last.analysis.keys
        /\ last.analysis.audio_error # ""

-----------------------------------------------------------------------------
(* C11 *)

C11_Probe == last.req.w.probe

\* what each probe printed is usable
C11_DurationOk == C11_Probe.dur.rc = 0 /\ C11_Probe.dur.out.num
C11_SizeOk ==
    /\ C11_Probe.size.rc = 0
    /\ Len(C11_Probe.size.fields) = 2
    /\ \A k \in 1..2 : C11_Probe.size.fields[k].num
C11_CodecOk == C11_Probe.codec.rc = 0

C11_ProbeFails ==
    /\ Done
    /\ Name = "get_video_info"
    /\ Events("ffprobe") # {}
    /\ C11_Probe.launch
    /\ ~(C11_DurationOk /\ C11_SizeOk /\ C11_CodecOk)

\* C11: in get_video_info a probe that exits non-zero, or exits zero with output
\* that does not parse, sets only its own field to the default (duration 0, width
\* and height 0, codec "unknown"); the other fields keep their probed values and
\* the call returns metadata, not an error result.
C11_IndependentDefaults ==
    C11_ProbeFails =>
        /\ "error" \notin Probed.keys
        /\ Probed.duration = IF C11_DurationOk THEN C11_Probe.dur.out.val ELSE 0
        /\ Probed.width = IF C11_SizeOk THEN C11_Probe.size.fields[1].val ELSE 0
        /\ Probed.height = IF C11_SizeOk THEN C11_Probe.size.fields[2].val ELSE 0
        /\ Probed.codec = IF C11_CodecOk THEN C11_Probe.codec.out ELSE "unknown"
        /\ Events("raise") = {}

\* the part of C11 the code keeps: a probe that exits non-zero degrades its own
\* field only
C11_NonZeroExitOnly ==
    (C11_ProbeFails
        /\ (C11_Probe.dur.rc = 0 => C11_Probe.dur.out.num)
        /\ (C11_Probe.size.rc = 0 => C11_SizeOk \/ Len(C11_Probe.size.fields) < 2))
    => /\ "error" \notin Probed.keys
       /\ Probed.duration = IF C11_DurationOk THEN C11_Probe.dur.out.val ELSE 0
       /\ Probed.width = IF C11_SizeOk THEN C11_Probe.size.fields[1].val ELSE 0
       /\ Probed.codec = IF C11_CodecOk THEN C11_Probe.codec.out ELSE "unknown"

-----------------------------------------------------------------------------
(* C12 *)

\* what the YouTube operations of the request report
C12_UrlInfo == get_video_info_url(Arg("url").s, last.req.w).ret
C12_Download ==
    download_video(Arg("url").s, Arg("output_dir"),
                   Get(last.req.arguments, "quality", PyStr("720p")), last.req.w)

\* the metadata probe of get_video_info reports an error
C12_InfoError ==
    Done /\ Name = "get_video_info" /\ "get_video_info" \in Ops /\ "error" \in Probed.keys

\* extract_info of get_youtube_info reports success = false
C12_UrlError ==
    Done /\ Name = "get_youtube_info" /\ "yt_extract_info" \in Ops /\ ~C12_UrlInfo.success

\* download_video returns success = false
C12_DownloadError ==
    /\ Done
    /\ Name = "download_youtube_video"
    /\ "download_video" \in Ops
    /\ C12_Download.exc = ""
    /\ ~C12_Download.ret.success

\* analyze_video returns an error field
C12_AnalysisError ==
    Done /\ "analyze_video" \in Ops /\ "error" \in last.analysis.keys

\* the transcription call of transcribe_video raises and is caught around the call
C12_TranscribeError ==
    /\ Done
    /\ Name = "transcribe_video"
    /\ "groq_transcribe" \in Ops
    /\ last.req.w.transcribe = "raise"

C12_PlainErrors ==
    /\ C12_InfoError => Answers("Error: " \o Probed.error)
    /\ C12_UrlError => Answers("Error: " \o C12_UrlInfo.error)
    /\ C12_AnalysisError => Answers("Error: " \o last.analysis.error)

-----------------------------------------------------------------------------
(* C13 *)

C13_Catalog ==
    <<"get_video_info", "extract_video_frames", "extract_video_audio", "split_video",
      "get_youtube_info", "download_youtube_video",
      "analyze_video", "summarize_video", "transcribe_video", "analyze_video_complete">>

\* the answer of call_tool's last branch
C13_NotRouted == Answers("Unknown tool: " \o Name)

\* C13: list_tools returns in every process state the same ordered catalog of ten
\* tools with distinct names (four local-media tools, two YouTube tools, four AI
\* tools); the names call_tool routes are the names of the catalog, and the names
\* behind the credential precheck are the four AI names.
C13_StableCatalog ==
    /\ pc = "listed" =>
          /\ last.tools = C13_Catalog
          /\ Len(last.tools) = 10
          /\ \A i, j \in DOMAIN last.tools : last.tools[i] = last.tools[j] => i = j
          /\ {last.tools[k] : k \in 7..10} = AIToolNames
    /\ Done =>
          /\ Name \in Range(list_tools) => ~C13_NotRouted
          /\ Name \notin Range(list_tools) =>
                /\ Ops \cap BackendOps = {}
                /\ C13_NotRouted \/ Events("exists") # {}
          /\ Events("init_analyzer") # {} => Name \in {list_tools[k] : k \in DOMAIN list_tools \cap 7..10}
          /\ (Name \in {list_tools[k] : k \in DOMAIN list_tools \cap 7..10} /\ last.ai0 = 0) =>
                Events("init_analyzer") # {}

\* the catalog listed after an AI tool built the client and the key was removed
C13_Witness ==
    /\ pc = "listed"
    /\ last.tools = C13_Catalog
    /\ ai_analyzer # 0
    /\ environ = <<>>
    /\ hist.failed

-----------------------------------------------------------------------------
(* C14 *)

\* the invocation passed the credential precheck
C14_Passes == ~Answers(C1_Message)

C14_AICall == Done /\ Name \in AIToolNames

\* the key the invocation found is set and not empty
C14_KeyPresent ==
    "GROQ_API_KEY" \in DOMAIN last.env /\ last.env["GROQ_API_KEY"] # ""

\* C14 as stated: once the presence of the credential has been evaluated, at
\* startup or at the first AI invocation, later changes of GROQ_API_KEY change
\* nothing: AI tools keep failing the precheck when the key was absent then, and
\* keep passing it when the key was present then and the client was built.
C14_Original ==
    C14_AICall =>
        /\ last.hist0.evaluated = "absent" => ~C14_Passes
        /\ (last.hist0.evaluated = "present" /\ last.ai0 # 0) => C14_Passes

\* C14 as amended: once a client has been built, AI tools pass the precheck for
\* the rest of the process without reading GROQ_API_KEY again, whether the key is
\* removed or not; while no client has been built, every AI invocation reads
\* GROQ_API_KEY again and passes exactly when the key is then present and the
\* client can be built.
C14_ClientPersists ==
    C14_AICall =>
        IF last.ai0 # 0
        THEN C14_Passes /\ Events("init_analyzer") = {} /\ ai_analyzer = last.ai0
        ELSE /\ Events("init_analyzer") # {}
             /\ C14_Passes <=> (C14_KeyPresent /\ last.req.w.ctor = "ok")
             /\ C14_Passes <=> ai_analyzer # 0

\* an AI tool analyses a video after the key that built the client was removed
C14_Witness ==
    /\ C14_AICall
    /\ last.hist0.evaluated = "present"
    /\ last.ai0 # 0
    /\ last.env = <<>>
    /\ C14_Passes
    /\ "groq_vision" \in Ops

-----------------------------------------------------------------------------
(* C15 *)

\* num_frames and segment_duration are left out or lie in the declared ranges
C15_InRange ==
    /\ Arg("num_frames").t = "absent"
       \/ (Arg("num_frames").t = "int"
           /\ Arg("num_frames").i \in C6_DeclaredMin..C5_DeclaredMax)
    /\ Arg("segment_duration").t = "absent"
       \/ (Arg("segment_duration").t = "int" /\ Arg("segment_duration").i \in 10..300)

\* a valid request in a world where every command and network call works
C15_Valid ==
    /\ Done
    /\ Name \in CatalogNames
    /\ last.req.w = W0
    /\ Name \in VideoPathToolNames => Arg("video_path") = PyStr(ExistingVideo)
    /\ Name \notin VideoPathToolNames =>
          Arg("url").t = "str" /\ Arg("url").s # ""
    /\ C15_InRange
    /\ Name \in AIToolNames => last.ai0 # 0 \/ C14_KeyPresent

\* the same request handled by a process that has served nothing before
C15_Fresh ==
    call_tool(Name, last.req.arguments, last.ai0, last.env,
              {VideoFile(ExistingVideo)}, last.req.w)

C15_Served ==
    /\ Done => ~last.raised /\ Len(last.content) = 1
    /\ C15_Valid =>
          /\ Ops \cap BackendOps # {}
          /\ last.exc = ""
          /\ Events("raise") = {}
          /\ last.content[1].text \notin FailureTexts
          /\ last.content = C15_Fresh.content

-----------------------------------------------------------------------------
(* C16 *)

C16_CredentialOps == Events("init_analyzer") \cup Events("AIAnalyzer")
C16_BackendEvents == {k \in DOMAIN last.ev : last.ev[k].op \in BackendOps}

\* the credential precheck of the invocation fails
C16_CredentialFails ==
    /\ Name \in AIToolNames
    /\ last.ai0 = 0
    /\ ~(C14_KeyPresent /\ last.req.w.ctor = "ok")

\* the file precheck of the invocation fails
C16_FileFails ==
    /\ Arg("video_path").t = "str"
    /\ Arg("video_path").s # ""
    /\ ~OnDisk(Arg("video_path").s)

\* C16: the credential precheck comes before the file precheck and both come
\* before any backend operation; a precheck that fails answers at once (an AI tool
\* with no credential and a video_path that does not exist gets the credential
\* message), and a backend operation runs only after both prechecks have passed.
C16_PrecheckOrder ==
    Done =>
        /\ \A i \in C16_CredentialOps : \A j \in Events("exists") : i < j
        /\ \A i \in C16_CredentialOps \cup Events("exists") :
              \A k \in C16_BackendEvents : i < k
        /\ Name \in AIToolNames => (last.ai0 = 0 <=> Events("init_analyzer") # {})
        /\ C16_CredentialFails =>
              /\ Answers(C1_Message)
              /\ Ops \subseteq {"init_analyzer", "AIAnalyzer"}
        /\ (~C16_CredentialFails /\ C16_FileFails) =>
              /\ Answers("Error: Video file not found: " \o Arg("video_path").s)
              /\ Ops \subseteq {"init_analyzer", "AIAnalyzer", "exists"}
        /\ C16_BackendEvents # {} =>
              /\ ~C16_CredentialFails
              /\ ~C16_FileFails
              /\ Name \in AIToolNames => ai_analyzer # 0

\* an AI tool builds its client, then finds the file, then analyses it
C16_Witness ==
    /\ Done
    /\ Name = "analyze_video_complete"
    /\ last.ai0 = 0
    /\ Events("AIAnalyzer") # {}
    /\ Events("exists") # {}
    /\ "groq_transcribe" \in Ops

-----------------------------------------------------------------------------
(* C17 *)

\* a local-media tool with valid arguments reaches its VideoProcessor operation
C17_Operation ==
    /\ Done
    /\ Name \in {"get_video_info", "extract_video_frames", "extract_video_audio",
                 "split_video"}
    /\ Arg("video_path") = PyStr(ExistingVideo)
    /\ C15_InRange
    /\ Ops \cap {"get_video_info", "extract_frames", "extract_audio", "split_video"} # {}

\* C17: when an external command exits non-zero, or the launch of a command or
\* the creation of the output directory raises, the VideoProcessor operation
\* returns its failure value: no exception leaves it for call_tool to catch.
C17_CapturedAtBoundary == C17_Operation => last.exc = ""

\* the part of C17 the code keeps: commands that are launched and exit non-zero,
\* in a directory that can be created, make no operation raise
C17_NonZeroExitOnly ==
    (C17_Operation /\ last.req.w.mkdirOk /\ last.req.w.ffmpegLaunch) =>
        last.exc = ""

-----------------------------------------------------------------------------
(* C18 *)

C18_Yt == last.req.w.yt
C18_Dir == IF Arg("output_dir").t = "absent" THEN "~/video-downloads"
           ELSE Arg("output_dir").s
C18_Saved(path) ==
    Answers("Successfully downloaded YouTube video!\n\nTitle: Title\nDuration: 0 seconds (0.0 minutes)\nUploader: unknown\nSaved to: "
            \o path
            \o "\n\nYou can now analyze this video:\n- Extract frames: extract_video_frames\n- Extract audio: extract_video_audio\n- Get info: get_video_info\n- AI analysis: analyze_video (requires API key)")

\* the entries of the listing that start with the expected base name and are no
\* ".part" files
C18_Candidates ==
    {k \in DOMAIN C18_Yt.listing : C18_Yt.listing[k].starts /\ ~C18_Yt.listing[k].part}

\* the download ran and raised no exception
C18_Completed ==
    /\ Done
    /\ Name = "download_youtube_video"
    /\ "yt_download" \in Ops
    /\ Events("raise") = {}

\* C18: after a download that raised nothing the expected .mp4 path is returned
\* when it exists; otherwise the first directory entry that starts with the
\* expected base name and does not end in ".part"; otherwise the failure "Download
\* completed but file not found". A success never names a ".part" file or a path
\* that was not seen to exist.
C18_ResolutionOrder ==
    C18_Completed =>
        LET r == C12_Download.ret
        IN  /\ C18_Yt.mp4 =>
                  /\ r.success
                  /\ r.video_path = C18_Dir \o "/Title.mp4"
            /\ (~C18_Yt.mp4 /\ C18_Candidates # {}) =>
                  /\ r.success
                  /\ \E k \in C18_Candidates :
                        /\ \A j \in C18_Candidates : k <= j
                        /\ r.video_path = C18_Dir \o "/" \o C18_Yt.listing[k].name
            /\ (~C18_Yt.mp4 /\ C18_Candidates = {}) =>
                  /\ ~r.success
                  /\ r.error = "Download completed but file not found"
            /\ r.success =>
                  /\ C18_Saved(r.video_path)
                  /\ \/ C18_Yt.mp4 /\ r.video_path = C18_Dir \o "/Title.mp4"
                     \/ \E k \in DOMAIN C18_Yt.listing :
                           /\ ~C18_Yt.listing[k].part
                           /\ r.video_path = C18_Dir \o "/" \o C18_Yt.listing[k].name
            /\ ~r.success => Answers("Error downloading video: " \o r.error)

\* a partial file comes first in the directory and the merged .webm is chosen
C18_Witness ==
    /\ C18_Completed
    /\ ~C18_Yt.mp4
    /\ Len(C18_Yt.listing) = 2
    /\ C18_Yt.listing[1].part
    /\ C18_Saved("~/video-downloads/Title.webm")

-----------------------------------------------------------------------------
(* C19 *)

\* analyze_video extracted at least one frame: the vision call was made
C19_FramesExtracted == Done /\ "analyze_video" \in Ops /\ "groq_vision" \in Ops

C19_TranscriptionFails ==
    "groq_transcribe" \in Ops /\ last.req.w.transcribe = "raise"

C19_VisualReturned ==
    /\ last.exc = ""
    /\ "error" \notin last.analysis.keys
    /\ "visual_analysis" \in last.analysis.keys
    /\ last.analysis.frames # <<>>
    /\ C19_TranscriptionFails =>
          /\ "audio_error" \in last.analysis.keys
          /\ last.analysis.audio_error = "Connection error."
          /\ "transcript" \notin last.analysis.keys

-----------------------------------------------------------------------------
(* C20 *)

\* a tool that declares video_path reaches a backend operation
C20_BackendReached == Done /\ Name \in VideoPathToolNames /\ C16_BackendEvents # {}

\* the path was checked in this invocation, before the backend, and exists
C20_Checked ==
    /\ Arg("video_path").t = "str"
    /\ Arg("video_path").s # ""
    /\ OnDisk(Arg("video_path").s)
    /\ \E k \in Events("exists") :
          /\ last.ev[k].a = Arg("video_path").s
          /\ \A b \in C16_BackendEvents : k < b

\* C20: a tool that declares video_path invokes a backend operation only with a
\* video_path that passed the existence check in the same invocation; a missing
\* or empty video_path never reaches a backend operation.
C20_CheckedPath == C20_BackendReached => C20_Checked

\* the part of C20 the code keeps: a video_path that is given and not empty is
\* checked before any backend operation
C20_GivenPathChecked ==
    (C20_BackendReached /\ Arg("video_path").t # "absent" /\ Arg("video_path").s # "")
    => C20_Checked

-----------------------------------------------------------------------------
(* C21 *)

\* split_video ran its segment command and listed the output directory
C21_CommandRan ==
    /\ Done
    /\ Name = "split_video"
    /\ "segment" \in Ops
    /\ "listdir" \in Ops

\* what split_video returned to the dispatcher in the invocation held in last
C21_Returned ==
    split_video(Get(last.req.arguments, "video_path", PyStr("")).s,
                SegmentDuration(last.req.arguments),
                Get(last.req.arguments, "output_dir", Absent),
                last.fs0, last.req.w).ret

\* the paths of the segment files the command of this invocation wrote
C21_Produced ==
    {PathStr(f) : f \in Written(DirOrDot(Get(last.req.arguments, "video_path", PyStr("")).s),
                                Stem(Get(last.req.arguments, "video_path", PyStr("")).s),
                                last.req.w.seg.n)}

\* the segment files of this video that were on disk before the invocation
C21_Stale ==
    Listed(last.fs0, DirOrDot(Get(last.req.arguments, "video_path", PyStr("")).s),
           Stem(Get(last.req.arguments, "video_path", PyStr("")).s))

\* C21: split_video returns only the segment files its own command produced, and
\* nothing when the command exits non-zero or produces nothing, whatever
\* segment files of an earlier run are in the output directory.
C21_OnlyCurrentSegments ==
    C21_CommandRan =>
        /\ Range(C21_Returned) \subseteq C21_Produced
        /\ (last.req.w.seg.rc # 0 \/ last.req.w.seg.n = 0) =>
              /\ C21_Returned = <<>>
              /\ Answers("Error: Failed to split video into segments.")

\* what the code does instead: it returns every matching file that is in the
\* directory after the command, in the order of the segment numbers, and answers
\* with the failure text only when there is none
C21_ListsDirectory ==
    C21_CommandRan =>
        /\ Range(C21_Returned) = C21_Produced \cup {PathStr(f) : f \in C21_Stale}
        /\ C21_Returned = Sorted(Listed(fs, DirOrDot(Get(last.req.arguments, "video_path",
                                                           PyStr("")).s),
                                        Stem(Get(last.req.arguments, "video_path",
                                                 PyStr("")).s)))
        /\ Answers("Error: Failed to split video into segments.") <=> C21_Returned = <<>>

\* the command exits non-zero and writes nothing, two segments of an earlier run
\* are in the directory, and the answer reports them as the result
C21_StaleReported ==
    /\ C21_CommandRan
    /\ last.req.w.seg = [rc |-> 1, n |-> 0]
    /\ Cardinality(C21_Stale) = 2
    /\ Len(C21_Returned) = 2
    /\ ~Answers("Error: Failed to split video into segments.")

-----------------------------------------------------------------------------
(* C22 *)

\* the invocations that went past the prechecks to the branch of their tool and
\* read the global there
C22_Proceeded ==
    {t \in Tasks : loop.tasks[t].pc \in {"vision", "audio"}
                   \/ loop.tasks[t].answer \in {"ok", "exception"}
                   \/ (loop.tasks[t].pc = "done" /\ loop.tasks[t].client # 0)}

\* the invocations that were dispatched while no client existed
C22_DispatchedWithout ==
    {t \in Tasks : loop.tasks[t].pc # "new" /\ loop.tasks[t].ai0 = 0}

\* C22: with the credential present, whatever the interleaving of the AI-tool
\* invocations dispatched on the event loop, at most one AIAnalyzer is built,
\* every invocation that proceeds uses it, and no invocation finds the client
\* unavailable after its precheck passed.
C22_OneClient ==
    HasKey(environ) =>
        /\ Cardinality(loop.built) <= 1
        /\ \A t \in C22_Proceeded :
              /\ loop.tasks[t].client = ai_analyzer
              /\ loop.tasks[t].client # 0
              /\ loop.tasks[t].ai0 = 0 => loop.built = {loop.tasks[t].client}
        /\ \A t \in Tasks : loop.tasks[t].answer # "unavailable"

\* two invocations dispatched while no client existed both wait for the Groq API
\* with the one client that was built
C22_Witness ==
    /\ HasKey(environ)
    /\ Cardinality(C22_DispatchedWithout) >= 2
    /\ \E t, u \in C22_DispatchedWithout :
         /\ t # u
         /\ loop.tasks[t].pc \in {"vision", "audio"}
         /\ loop.tasks[u].pc \in {"vision", "audio"}
         /\ loop.tasks[t].client = loop.tasks[u].client
         /\ loop.built = {loop.tasks[t].client}

-----------------------------------------------------------------------------
(* C23 *)

\* the invocation just handled changed the global client
C23_Changed == Done /\ ai_analyzer # last.ai0

\* what an invocation leaves behind: os.environ as it was, and the global client
\* as it was unless the invocation is of an AI tool, found no client, found the
\* credential and was not refused
C23_Frame ==
    Done =>
        /\ environ = last.env
        /\ C23_Changed =>
              /\ last.ai0 = 0
              /\ ai_analyzer # 0
              /\ Name \in AIToolNames
              /\ HasKey(last.env)
              /\ ~Answers(KeyMessage)
        /\ Name \notin AIToolNames => ai_analyzer = last.ai0
        /\ Answers(KeyMessage) => ai_analyzer = last.ai0

\* a step of the process changes the global client only from None to a client,
\* only in main() or in call_tool, only with the credential present
C23_Step ==
    /\ ai_analyzer # 0 => ai_analyzer' = ai_analyzer
    /\ ai_analyzer' # ai_analyzer =>
          /\ HasKey(environ)
          /\ pc = "start" \/ (pc = "idle" /\ pc' = "done")
    /\ (pc = "idle" /\ pc' \in {"done", "listed"}) => environ' = environ

\* C23: over any sequence of invocations handled one after the other, call_tool
\* changes no process-wide state but the global client, which goes only from
\* None to a client, only at startup or in an AI-tool invocation that finds the
\* credential; other invocations and refused ones leave it as it is, and a
\* client once set is never replaced or reset.
C23_OnlyClientChanges == []C23_Frame /\ [][C23_Step]_vars

\* an AI-tool invocation found no client and the credential, and built the client
C23_Witness ==
    /\ C23_Changed
    /\ Name \in AIToolNames
    /\ last.ai0 = 0
    /\ ai_analyzer = 1
    /\ HasKey(last.env)
    /\ "AIAnalyzer" \in Ops

====
